---- MODULE Spec2Model ----
(***************************************************************************)
(* A model of the video-call application: the WebRTCManager (session       *)
(* orchestrator) of lib/webrtc/WebRTCManager.ts driven by its PeerJS and   *)
(* getUserMedia callbacks, and the CaptionManager (caption pipeline) of    *)
(* lib/captions/CaptionManager.ts driven by the SpeechRecognitionService   *)
(* and the TranslationService.                                             *)
(*                                                                         *)
(* SpecSession is one WebRTCManager instance; the remote parties (other    *)
(* PeerJS peers, among them other instances of this program) are the       *)
(* environment and act only through the events PeerJS delivers.            *)
(* SpecCaption is one CaptionManager instance with its two services.       *)
(***************************************************************************)
EXTENDS Integers, Sequences, FiniteSets, TLC

(***************************************************************************)
(* Bounds of the model.                                                    *)
(***************************************************************************)
\* getUserMedia requests issued by the manager
MaxStreams == 3
\* recognition results and peer payloads the caption pipeline takes in
MaxInputs == 2
\* captions in the log getCaptions sorts
MaxLog == 3
\* the largest value Date.now() returns
MaxStamp == 2
\* the segments one recognition session delivers, and the most one engine
\* event carries
MaxSegments == 3
MaxBatch == 2
\* the caption messages relayed in each direction of one data channel
MaxRelay == 2

(***************************************************************************)
(* Identities.  Remote peers are named by the identity they registered.    *)
(* FreeId is an identity nobody has registered (a fresh shared link).      *)
(***************************************************************************)
Remotes == {"r1", "r2"}
FreeId == "s0"
NoId == "none"
\* the sessionId the callers pass to createSession: none (the unit tests), a
\* fresh shared identity, or a shared identity a remote host already holds
CreateArgs == {NoId, FreeId, "r1"}

\* generateSecureSessionId: a random 128-bit value; the n-th value drawn is
\* modelled as a name no earlier draw and no remote peer has
generateSecureSessionId(n) == "g" \o ToString(n)

NoConn == [dir |-> "none", remote |-> NoId]
InConn(r) == [dir |-> "in", remote |-> r]
OutConn(t) == [dir |-> "out", remote |-> t]
NoStream == 0

DefaultMediaState == [audioEnabled |-> TRUE, videoEnabled |-> TRUE, stream |-> NoStream]
DefaultTracks == [audio |-> TRUE, video |-> TRUE]

VARIABLES
  \* ---- WebRTCManager fields ----
  peer,              \* this.peer: "none" (null), "opening", "open", "failed", "disconnected"
  peerId,            \* the identity this.peer was constructed with
  connection,        \* this.connection: the DataConnection referenced
  mediaConnection,   \* this.mediaConnection: the MediaConnection referenced
  localStream,       \* this.localStream: a stream id, NoStream for null
  remoteStream,      \* this.remoteStream: the remote whose stream it is, NoId for null
  mediaState,        \* this.mediaState
  participantCount,  \* this.participantCount
  \* ---- the promise and closure state of the running createSession/joinSession ----
  op,                \* which call constructed this.peer: "none", "create", "join"
  joinTarget,        \* the sessionId argument of the running joinSession
  requested,         \* the argument the caller passed to createSession
  promise,           \* "none", "pending", "resolved", "rejected"
  \* ---- PeerJS objects and the browser ----
  outData,           \* the DataConnection made by peer.connect(joinTarget)
  outMedia,          \* the MediaConnection made by peer.call(joinTarget, stream)
  inData,            \* per remote: the DataConnection it opened to us: "none",
                     \* "accepted", "open", "closed" (by the remote), "rejected"
                     \* (closed by the 'connection' handler)
  inMedia,           \* per remote: the MediaConnection it called us with: "none",
                     \* "awaiting" (the handler waits for the camera), "active"
                     \* (answered), "streaming", "closed", "rejected"
  mediaHandlers,     \* the MediaConnections setupMediaConnection put handlers on
  tracks,            \* enabled flags of the tracks of this.localStream
  liveStreams,       \* the streams acquired whose tracks were never stopped
  pendingAcq,        \* getUserMedia requests not yet settled, with their continuation
  streamCount,       \* getUserMedia requests issued so far
  genCount,          \* identities generated so far
  emitted,           \* the events the last handler emitted to the manager's listeners
  streamReturned,    \* the stream the last getLocalStream() call of a user returned
  created            \* the id session-created carried and the id createSession returned

sessionVars == <<peer, peerId, connection, mediaConnection, localStream, remoteStream,
                 mediaState, participantCount, op, joinTarget, requested, promise,
                 outData, outMedia, inData, inMedia, mediaHandlers, tracks,
                 liveStreams, pendingAcq, streamCount, genCount, emitted, streamReturned,
                 created>>

VARIABLES
  \* ---- CaptionManager fields ----
  isMuted,           \* this.isMuted
  targetLanguage,    \* this.targetLanguage
  sourceLanguage,    \* this.sourceLanguage
  captionQueue,      \* this.captionQueue
  captionHandlers,   \* this.eventHandlers holds the subscriber of 'caption'
  \* ---- the subscriber, the translation calls in flight, the clock ----
  captionEvents,     \* the captions delivered to the subscriber of 'caption'
  pendingTr,         \* translate() calls awaited by the two caption builders
  resultCount,       \* recognition results delivered so far
  remoteCount,       \* caption payloads received so far
  \* ---- SpeechRecognitionService and the engine behind it ----
  isRunning,         \* this.isRunning
  engine             \* the SpeechRecognition object: "idle", "starting", "running", "stopping"

captionVars == <<isMuted, targetLanguage, sourceLanguage, captionQueue, captionHandlers,
                 captionEvents, pendingTr, resultCount, remoteCount,
                 isRunning, engine>>

VARIABLES
  \* ---- one TranslationService and the translate() call it is serving ----
  trStage,           \* where translate() stands: "idle", "libre", "mymemory", "done"
  trCall,            \* the arguments of the call
  trResult,          \* the TranslationResult it returned
  libreCalls,        \* fetches sent to the LibreTranslate endpoint for this call
  myMemoryCalls,     \* fetches sent to the MyMemory endpoint for this call
  libreReply,        \* how the LibreTranslate fetch ended
  myMemoryReply      \* how the MyMemory fetch ended

translateVars == <<trStage, trCall, trResult, libreCalls, myMemoryCalls, libreReply,
                   myMemoryReply>>

VARIABLES
  \* ---- a caption log with its timestamps, and what getCaptions returned ----
  stampedQueue,      \* this.captionQueue, each caption with its timestamp
  captionsView       \* the array the last getCaptions() returned

queueVars == <<stampedQueue, captionsView>>

VARIABLES
  \* ---- what a caller of the CaptionManager observes of its last operation ----
  called,            \* the operation: "none" when the engine or a translation acted
  adapterCall,       \* the speechService method it called: "none", "start", "stop"
  raised,            \* whether the operation threw
  wanted             \* the last call on the speechService was start, not stop

observedVars == <<called, adapterCall, raised, wanted>>

VARIABLES
  \* ---- one SpeechRecognitionService and its engine's result list ----
  results,           \* event.results: the segments the engine has delivered so far
  resultEvents       \* the 'result' events a subscriber of the service received

resultVars == <<results, resultEvents>>

VARIABLES
  \* ---- the data channel of the manager and the hook's binding to it ----
  sentData,          \* what connection.send was called with, in order
  arrived,           \* what the peer sent that arrived on the manager's open connection
  received           \* what the hook's 'data' listener passed to processRemoteCaption

relayVars == <<sentData, arrived, received>>

VARIABLES
  \* ---- the state of the useVideoCall hook ----
  audioEnabled,      \* the microphone as the call controls report it
  videoEnabled       \* the camera as the call controls report it

hookVars == <<audioEnabled, videoEnabled>>

vars == <<sessionVars, captionVars, translateVars, queueVars, observedVars, resultVars,
          relayVars, hookVars>>
\* what each part of the program leaves alone
besidesSession == <<captionVars, translateVars, queueVars, observedVars, resultVars, relayVars,
    hookVars>>
besidesCaption == <<sessionVars, translateVars, queueVars, observedVars, resultVars, relayVars,
    hookVars>>
besidesTranslate == <<sessionVars, captionVars, queueVars, observedVars, resultVars, relayVars,
    hookVars>>
besidesQueue == <<sessionVars, captionVars, translateVars, observedVars, resultVars, relayVars,
    hookVars>>
besidesSpeech == <<sessionVars, translateVars, queueVars, resultVars, relayVars, hookVars>>
besidesRelay == <<captionVars, translateVars, queueVars, observedVars, resultVars, hookVars>>
besidesResults == <<sessionVars, captionVars, translateVars, queueVars, observedVars, relayVars,
    hookVars>>

(***************************************************************************)
(* Helpers shared by the handlers.                                         *)
(***************************************************************************)
\* settling a promise: resolve and reject change only a pending promise
Resolve_Never(p) == p
Resolve(p) == IF p = "pending" THEN "resolved" ELSE p
Reject(p) == IF p = "pending" THEN "rejected" ELSE p

\* the guard both inbound handlers start with: participantCount >= 2
AtCapacity_OffByOne == participantCount > 2
AtCapacity == participantCount >= 2

\* DataConnection.open of the object a reference points to
ConnIsOpen_Always(c) == TRUE
ConnIsOpen(c) ==
  CASE c.dir = "out" -> outData = "open"
    [] c.dir = "in" -> inData[c.remote] = "open"
    [] OTHER -> FALSE

\* The callers (useVideoCall.startCall, app/call/[id]/page.tsx, the unit tests)
\* construct a new WebRTCManager for every call: an instance gets one
\* createSession(sessionId) and, in the catch block of that call, one
\* joinSession(sessionId) with the same sessionId.
FreshManager == peer = "none" /\ genCount = 0
CreateFailed == peer = "failed" /\ op = "create" /\ requested # NoId

\* the remotes that dial in: the host this manager joined is reached through the
\* outbound connections and does not call back
Dialers == Remotes \ {joinTarget}

\* a getUserMedia request with the caller that awaits it; stale once
\* disconnect() has run while it was pending
AcqRequest(kind, r) == [k |-> kind, r |-> r, s |-> streamCount + 1, stale |-> FALSE]

SessionInit ==
  /\ peer = "none"
  /\ peerId = NoId
  /\ connection = NoConn
  /\ mediaConnection = NoConn
  /\ localStream = NoStream
  /\ remoteStream = NoId
  /\ mediaState = DefaultMediaState
  /\ participantCount = 0
  /\ op = "none"
  /\ joinTarget = NoId
  /\ requested = NoId
  /\ promise = "none"
  /\ outData = "none"
  /\ outMedia = "none"
  /\ inData = [r \in Remotes |-> "none"]
  /\ inMedia = [r \in Remotes |-> "none"]
  /\ mediaHandlers = {}
  /\ tracks = DefaultTracks
  /\ liveStreams = {}
  /\ pendingAcq = {}
  /\ streamCount = 0
  /\ genCount = 0
  /\ emitted = {}
  /\ streamReturned = NoStream
  /\ created = [event |-> NoId, result |-> NoId]

(***************************************************************************)
(* createSession and joinSession up to the point where the Peer opens.     *)
(***************************************************************************)
\* createSession(): the argument the callers pass is not a parameter of the
\* method; the identity is the generated one
createSession(arg) ==
  /\ FreshManager
  /\ peer' = "opening"
  /\ peerId' = generateSecureSessionId(genCount + 1)
  /\ genCount' = genCount + 1
  /\ op' = "create"
  /\ requested' = arg
  /\ joinTarget' = NoId
  /\ promise' = "pending"
  /\ emitted' = {}
  /\ UNCHANGED <<connection, mediaConnection, localStream, remoteStream, mediaState,
                 participantCount, outData, outMedia, inData, inMedia, mediaHandlers,
                 tracks, liveStreams, pendingAcq, streamCount>>
  /\ UNCHANGED streamReturned
  /\ UNCHANGED created

\* joinSession(sessionId): a new Peer under a generated identity; startCall
\* calls it on the manager whose createSession(sessionId) failed
joinSession(sessionId) ==
  /\ CreateFailed
  /\ sessionId = requested
  /\ peer' = "opening"
  /\ peerId' = generateSecureSessionId(genCount + 1)
  /\ genCount' = genCount + 1
  /\ op' = "join"
  /\ joinTarget' = sessionId
  /\ promise' = "pending"
  /\ emitted' = {}
  /\ UNCHANGED <<connection, mediaConnection, localStream, remoteStream, mediaState,
                 participantCount, requested, outData, outMedia, inData, inMedia,
                 mediaHandlers, tracks, liveStreams, pendingAcq, streamCount>>
  /\ UNCHANGED streamReturned
  /\ UNCHANGED created

\* peer.on('open') of createSession: the id the handler receives is the one
\* the Peer was constructed with; it is emitted and passed to resolve
CreateOpen ==
  /\ peer = "opening"
  /\ op = "create"
  /\ peer' = "open"
  /\ participantCount' = 1
  /\ promise' = Resolve(promise)
  /\ emitted' = {"session-created"}
  /\ UNCHANGED <<peerId, connection, mediaConnection, localStream, remoteStream,
                 mediaState, op, joinTarget, requested, outData, outMedia, inData,
                 inMedia, mediaHandlers, tracks, liveStreams, pendingAcq, streamCount,
                 genCount>>
  /\ UNCHANGED streamReturned
  /\ created' = [event |-> peerId,
                 result |-> IF promise = "pending" THEN peerId ELSE created.result]

\* peer.on('error') while the Peer is opening: the transport cannot open
PeerOpenFails ==
  /\ peer = "opening"
  /\ peer' = "failed"
  /\ promise' = Reject(promise)
  /\ emitted' = {}
  /\ UNCHANGED <<peerId, connection, mediaConnection, localStream, remoteStream,
                 mediaState, participantCount, op, joinTarget, requested, outData,
                 outMedia, inData, inMedia, mediaHandlers, tracks, liveStreams,
                 pendingAcq, streamCount, genCount>>
  /\ UNCHANGED streamReturned
  /\ UNCHANGED created

\* the part of joinSession's open handler after `await this.getLocalStream()`:
\* peer.connect, the two connection handlers, peer.call, setupMediaConnection,
\* resolve.  this.peer is null after disconnect(): the TypeError is caught and
\* the promise rejected.
JoinConnect(peerNow) ==
  IF peerNow = "open"
  THEN /\ connection' = OutConn(joinTarget)
       /\ outData' = "connecting"
       /\ mediaConnection' = OutConn(joinTarget)
       /\ outMedia' = "ringing"
       /\ mediaHandlers' = mediaHandlers \cup {OutConn(joinTarget)}
       /\ promise' = Resolve(promise)
  ELSE /\ promise' = Reject(promise)
       /\ UNCHANGED <<connection, outData, mediaConnection, outMedia, mediaHandlers>>

\* peer.on('open') of joinSession: setupPeerListeners, then the local stream
JoinOpen ==
  /\ peer = "opening"
  /\ op = "join"
  /\ peer' = "open"
  /\ emitted' = {}
  /\ IF localStream # NoStream
     THEN /\ JoinConnect("open")
          /\ UNCHANGED <<pendingAcq, streamCount>>
     ELSE /\ streamCount < MaxStreams
          /\ pendingAcq' = pendingAcq \cup {AcqRequest("join", NoId)}
          /\ streamCount' = streamCount + 1
          /\ UNCHANGED <<connection, outData, mediaConnection, outMedia, mediaHandlers,
                         promise>>
  /\ UNCHANGED <<peerId, localStream, remoteStream, mediaState, participantCount, op,
                 joinTarget, requested, inData, inMedia, tracks, liveStreams, genCount>>
  /\ UNCHANGED streamReturned
  /\ UNCHANGED created

\* getLocalStream's first test: if (this.localStream) return this.localStream
HasLocalStream == localStream # NoStream

(***************************************************************************)
(* getLocalStream and the settling of navigator.mediaDevices.getUserMedia. *)
(***************************************************************************)
\* getLocalStream() called by the application
getLocalStream ==
  /\ emitted' = {}
  /\ IF HasLocalStream
       THEN /\ streamReturned' = localStream
            /\ UNCHANGED <<pendingAcq, streamCount>>
       ELSE /\ streamCount < MaxStreams
            /\ pendingAcq' = pendingAcq \cup {AcqRequest("api", NoId)}
            /\ streamCount' = streamCount + 1
            /\ UNCHANGED streamReturned
  /\ UNCHANGED <<peer, peerId, connection, mediaConnection, localStream, remoteStream,
                 mediaState, participantCount, op, joinTarget, requested, promise,
                 outData, outMedia, inData, inMedia, mediaHandlers, tracks, liveStreams,
                 genCount>>
  /\ UNCHANGED created

\* the call handler after its await: call.answer, this.mediaConnection = call,
\* participantCount = 2, setupMediaConnection
AnswerCall(r, state) ==
  /\ inMedia' = [inMedia EXCEPT ![r] = IF state = "awaiting" THEN "active" ELSE state]
  /\ mediaConnection' = InConn(r)
  /\ participantCount' = 2
  /\ mediaHandlers' = mediaHandlers \cup {InConn(r)}

\* getUserMedia resolves: getLocalStream stores the stream and emits, then the
\* awaiting caller continues in the same turn
GetUserMediaResolve(q) ==
  /\ q \in pendingAcq
  /\ pendingAcq' = pendingAcq \ {q}
  /\ localStream' = q.s
  /\ mediaState' = [mediaState EXCEPT !.stream = q.s]
  /\ liveStreams' = liveStreams \cup {q.s}
  /\ tracks' = DefaultTracks
  /\ emitted' = {"local-stream"}
  /\ CASE q.k = "join" ->
            /\ JoinConnect(peer)
            /\ UNCHANGED <<participantCount, inMedia>>
       [] q.k = "call" ->
            /\ AnswerCall(q.r, inMedia[q.r])
            /\ UNCHANGED <<connection, outData, outMedia, promise>>
       [] OTHER ->
            UNCHANGED <<connection, mediaConnection, outData, outMedia, mediaHandlers,
                        promise, participantCount, inMedia>>
  /\ streamReturned' = IF q.k = "api" THEN q.s ELSE streamReturned
  /\ UNCHANGED created
  /\ UNCHANGED <<peer, peerId, remoteStream, op, joinTarget, requested, inData,
                 streamCount, genCount>>

\* getUserMedia rejects: getLocalStream throws; joinSession rejects, the call
\* handler closes the call
GetUserMediaReject(q) ==
  /\ q \in pendingAcq
  /\ pendingAcq' = pendingAcq \ {q}
  /\ emitted' = {}
  /\ promise' = IF q.k = "join" THEN Reject(promise) ELSE promise
  /\ inMedia' = IF q.k = "call" /\ inMedia[q.r] = "awaiting"
                THEN [inMedia EXCEPT ![q.r] = "closed"] ELSE inMedia
  /\ UNCHANGED <<peer, peerId, connection, mediaConnection, localStream, remoteStream,
                 mediaState, participantCount, op, joinTarget, requested, outData,
                 outMedia, inData, mediaHandlers, tracks, liveStreams, streamCount,
                 genCount>>
  /\ UNCHANGED streamReturned
  /\ UNCHANGED created

(***************************************************************************)
(* setupPeerListeners: the handlers of the open Peer.                      *)
(***************************************************************************)
\* peer.on('call'): a remote places a media call
OnCall(r) ==
  /\ peer = "open"
  /\ r \in Dialers
  /\ inMedia[r] = "none"
  /\ emitted' = {}
  /\ IF AtCapacity
     THEN /\ inMedia' = [inMedia EXCEPT ![r] = "rejected"]
          /\ UNCHANGED <<mediaConnection, participantCount, mediaHandlers, pendingAcq,
                         streamCount>>
     ELSE IF localStream # NoStream
     THEN /\ AnswerCall(r, "awaiting")
          /\ UNCHANGED <<pendingAcq, streamCount>>
     ELSE /\ streamCount < MaxStreams
          /\ inMedia' = [inMedia EXCEPT ![r] = "awaiting"]
          /\ pendingAcq' = pendingAcq \cup {AcqRequest("call", r)}
          /\ streamCount' = streamCount + 1
          /\ UNCHANGED <<mediaConnection, participantCount, mediaHandlers>>
  /\ UNCHANGED <<peer, peerId, connection, localStream, remoteStream, mediaState, op,
                 joinTarget, requested, promise, outData, outMedia, inData, tracks,
                 liveStreams, genCount>>
  /\ UNCHANGED streamReturned
  /\ UNCHANGED created

\* peer.on('connection'): a remote opens a data connection
OnConnection(r) ==
  /\ peer = "open"
  /\ r \in Dialers
  /\ inData[r] = "none"
  /\ emitted' = {}
  /\ IF AtCapacity
     THEN /\ inData' = [inData EXCEPT ![r] = "rejected"]
          /\ UNCHANGED <<connection, participantCount>>
     ELSE /\ inData' = [inData EXCEPT ![r] = "accepted"]
          /\ connection' = InConn(r)
          /\ participantCount' = 2
  /\ UNCHANGED <<peer, peerId, mediaConnection, localStream, remoteStream, mediaState,
                 op, joinTarget, requested, promise, outData, outMedia, inMedia,
                 mediaHandlers, tracks, liveStreams, pendingAcq, streamCount, genCount>>
  /\ UNCHANGED streamReturned
  /\ UNCHANGED created

\* conn.on('open') of an accepted inbound data connection
InConnOpen(r) ==
  /\ inData[r] = "accepted"
  /\ inData' = [inData EXCEPT ![r] = "open"]
  /\ emitted' = {"connected"}
  /\ UNCHANGED <<peer, peerId, connection, mediaConnection, localStream, remoteStream,
                 mediaState, participantCount, op, joinTarget, requested, promise,
                 outData, outMedia, inMedia, mediaHandlers, tracks, liveStreams,
                 pendingAcq, streamCount, genCount>>
  /\ UNCHANGED streamReturned
  /\ UNCHANGED created

\* conn.on('data') of an accepted inbound data connection
InConnData(r) ==
  /\ inData[r] = "open"
  /\ emitted' = {"data"}
  /\ UNCHANGED <<peer, peerId, connection, mediaConnection, localStream, remoteStream,
                 mediaState, participantCount, op, joinTarget, requested, promise,
                 outData, outMedia, inData, inMedia, mediaHandlers, tracks, liveStreams,
                 pendingAcq, streamCount, genCount>>
  /\ UNCHANGED streamReturned
  /\ UNCHANGED created

\* conn.on('close') of an accepted inbound data connection: the remote left
InConnClose(r) ==
  /\ inData[r] \in {"accepted", "open"}
  /\ inData' = [inData EXCEPT ![r] = "closed"]
  /\ emitted' = {"peer-disconnected"}
  /\ UNCHANGED <<peer, peerId, connection, mediaConnection, localStream, remoteStream,
                 mediaState, participantCount, op, joinTarget, requested, promise,
                 outData, outMedia, inMedia, mediaHandlers, tracks, liveStreams,
                 pendingAcq, streamCount, genCount>>
  /\ UNCHANGED streamReturned
  /\ UNCHANGED created

\* peer.on('disconnected'): the signalling server is lost
PeerDisconnected ==
  /\ peer = "open"
  /\ peer' = "disconnected"
  /\ emitted' = {"peer-disconnected"}
  /\ UNCHANGED <<peerId, connection, mediaConnection, localStream, remoteStream,
                 mediaState, participantCount, op, joinTarget, requested, promise,
                 outData, outMedia, inData, inMedia, mediaHandlers, tracks, liveStreams,
                 pendingAcq, streamCount, genCount>>
  /\ UNCHANGED streamReturned
  /\ UNCHANGED created

(***************************************************************************)
(* The handlers joinSession puts on its outbound data connection.          *)
(***************************************************************************)
\* connection.on('open'): the data channel to the host opened
OutConnOpen ==
  /\ outData = "connecting"
  /\ joinTarget \in Remotes
  /\ outData' = "open"
  /\ participantCount' = 2
  /\ emitted' = {"connected"}
  /\ UNCHANGED <<peer, peerId, connection, mediaConnection, localStream, remoteStream,
                 mediaState, op, joinTarget, requested, promise, outMedia, inData,
                 inMedia, mediaHandlers, tracks, liveStreams, pendingAcq, streamCount,
                 genCount>>
  /\ UNCHANGED streamReturned
  /\ UNCHANGED created

\* connection.on('error'): reject(error), which a settled promise ignores
OutConnError ==
  /\ outData = "connecting"
  /\ outData' = "closed"
  /\ promise' = Reject(promise)
  /\ emitted' = {}
  /\ UNCHANGED <<peer, peerId, connection, mediaConnection, localStream, remoteStream,
                 mediaState, participantCount, op, joinTarget, requested, outMedia,
                 inData, inMedia, mediaHandlers, tracks, liveStreams, pendingAcq,
                 streamCount, genCount>>
  /\ UNCHANGED streamReturned
  /\ UNCHANGED created

\* the host closes the data connection (it rejected it, or it left): joinSession
\* registers no 'close' handler on its connection
OutConnClose ==
  /\ outData \in {"connecting", "open"}
  /\ outData' = "closed"
  /\ emitted' = {}
  /\ UNCHANGED <<peer, peerId, connection, mediaConnection, localStream, remoteStream,
                 mediaState, participantCount, op, joinTarget, requested, promise,
                 outMedia, inData, inMedia, mediaHandlers, tracks, liveStreams,
                 pendingAcq, streamCount, genCount>>
  /\ UNCHANGED streamReturned
  /\ UNCHANGED created

\* peer.on('error') of joinSession after the Peer opened: the identity joined is
\* not registered (peer-unavailable); reject(error) on the settled promise
JoinPeerUnavailable ==
  /\ peer = "open"
  /\ op = "join"
  /\ joinTarget \notin Remotes
  /\ outData = "connecting"
  /\ outData' = "closed"
  /\ outMedia' = "closed"
  /\ promise' = Reject(promise)
  /\ emitted' = {}
  /\ UNCHANGED <<peer, peerId, connection, mediaConnection, localStream, remoteStream,
                 mediaState, participantCount, op, joinTarget, requested, inData,
                 inMedia, mediaHandlers, tracks, liveStreams, pendingAcq, streamCount,
                 genCount>>
  /\ UNCHANGED streamReturned
  /\ UNCHANGED created

(***************************************************************************)
(* setupMediaConnection: the handlers of a media connection.               *)
(***************************************************************************)
\* mediaConnection.on('stream') of an answered inbound call
InMediaStream(r) ==
  /\ inMedia[r] = "active"
  /\ InConn(r) \in mediaHandlers
  /\ inMedia' = [inMedia EXCEPT ![r] = "streaming"]
  /\ remoteStream' = r
  /\ emitted' = {"remote-stream"}
  /\ UNCHANGED <<peer, peerId, connection, mediaConnection, localStream, mediaState,
                 participantCount, op, joinTarget, requested, promise, outData,
                 outMedia, inData, mediaHandlers, tracks, liveStreams, pendingAcq,
                 streamCount, genCount>>
  /\ UNCHANGED streamReturned
  /\ UNCHANGED created

\* mediaConnection.on('close') of an inbound call: the remote hung up
InMediaClose(r) ==
  /\ inMedia[r] \in {"awaiting", "active", "streaming"}
  /\ inMedia' = [inMedia EXCEPT ![r] = "closed"]
  /\ IF InConn(r) \in mediaHandlers
     THEN /\ remoteStream' = NoId
          /\ emitted' = {"media-connection-closed"}
     ELSE /\ emitted' = {}
          /\ UNCHANGED remoteStream
  /\ UNCHANGED <<peer, peerId, connection, mediaConnection, localStream, mediaState,
                 participantCount, op, joinTarget, requested, promise, outData,
                 outMedia, inData, mediaHandlers, tracks, liveStreams, pendingAcq,
                 streamCount, genCount>>
  /\ UNCHANGED streamReturned
  /\ UNCHANGED created

\* mediaConnection.on('stream') of the outbound call: the host answered
OutMediaStream ==
  /\ outMedia = "ringing"
  /\ joinTarget \in Remotes
  /\ outMedia' = "streaming"
  /\ remoteStream' = joinTarget
  /\ emitted' = {"remote-stream"}
  /\ UNCHANGED <<peer, peerId, connection, mediaConnection, localStream, mediaState,
                 participantCount, op, joinTarget, requested, promise, outData, inData,
                 inMedia, mediaHandlers, tracks, liveStreams, pendingAcq, streamCount,
                 genCount>>
  /\ UNCHANGED streamReturned
  /\ UNCHANGED created

\* mediaConnection.on('close') of the outbound call: the host closed it
OutMediaClose ==
  /\ outMedia \in {"ringing", "streaming"}
  /\ outMedia' = "closed"
  /\ remoteStream' = NoId
  /\ emitted' = {"media-connection-closed"}
  /\ UNCHANGED <<peer, peerId, connection, mediaConnection, localStream, mediaState,
                 participantCount, op, joinTarget, requested, promise, outData, inData,
                 inMedia, mediaHandlers, tracks, liveStreams, pendingAcq, streamCount,
                 genCount>>
  /\ UNCHANGED streamReturned
  /\ UNCHANGED created

\* mediaConnection.on('error') of the outbound call: the call could not be set up
OutMediaError ==
  /\ outMedia = "ringing"
  /\ outMedia' = "closed"
  /\ emitted' = {"media-connection-error"}
  /\ UNCHANGED <<peer, peerId, connection, mediaConnection, localStream, remoteStream,
                 mediaState, participantCount, op, joinTarget, requested, promise,
                 outData, inData, inMedia, mediaHandlers, tracks, liveStreams,
                 pendingAcq, streamCount, genCount>>
  /\ UNCHANGED streamReturned
  /\ UNCHANGED created

(***************************************************************************)
(* The synchronous operations of the manager.                              *)
(***************************************************************************)
\* this.mediaState.audioEnabled = enabled
SetAudioEnabled_Both(state, enabled) ==
  [state EXCEPT !.audioEnabled = enabled, !.videoEnabled = enabled]
SetAudioEnabled(state, enabled) == [state EXCEPT !.audioEnabled = enabled]

toggleAudio(enabled) ==
  /\ IF localStream # NoStream
     THEN /\ tracks' = [tracks EXCEPT !.audio = enabled]
          /\ mediaState' = SetAudioEnabled(mediaState, enabled)
          /\ emitted' = {"audio-toggled"}
     ELSE /\ emitted' = {}
          /\ UNCHANGED <<tracks, mediaState>>
  /\ UNCHANGED <<peer, peerId, connection, mediaConnection, localStream, remoteStream,
                 participantCount, op, joinTarget, requested, promise, outData,
                 outMedia, inData, inMedia, mediaHandlers, liveStreams, pendingAcq,
                 streamCount, genCount>>
  /\ UNCHANGED streamReturned
  /\ UNCHANGED created

toggleVideo(enabled) ==
  /\ IF localStream # NoStream
     THEN /\ tracks' = [tracks EXCEPT !.video = enabled]
          /\ mediaState' = [mediaState EXCEPT !.videoEnabled = enabled]
          /\ emitted' = {"video-toggled"}
     ELSE /\ emitted' = {}
          /\ UNCHANGED <<tracks, mediaState>>
  /\ UNCHANGED <<peer, peerId, connection, mediaConnection, localStream, remoteStream,
                 participantCount, op, joinTarget, requested, promise, outData,
                 outMedia, inData, inMedia, mediaHandlers, liveStreams, pendingAcq,
                 streamCount, genCount>>
  /\ UNCHANGED streamReturned
  /\ UNCHANGED created

\* the MediaState literal disconnect() assigns
ResetMediaState_KeepsFlags == [mediaState EXCEPT !.stream = NoStream]
ResetMediaState == [audioEnabled |-> TRUE, videoEnabled |-> TRUE, stream |-> NoStream]

\* disconnect(): stop the tracks, close both connections, destroy the Peer (which
\* closes every connection of the Peer and ends its events), reset the fields;
\* a pending getUserMedia request is not cancelled
disconnect ==
  /\ liveStreams' = liveStreams \ {localStream}
  /\ localStream' = NoStream
  /\ connection' = NoConn
  /\ mediaConnection' = NoConn
  /\ peer' = "none"
  /\ peerId' = NoId
  /\ remoteStream' = NoId
  /\ participantCount' = 0
  /\ mediaState' = ResetMediaState
  /\ tracks' = DefaultTracks
  /\ outData' = "none"
  /\ outMedia' = "none"
  /\ inData' = [r \in Remotes |-> "none"]
  /\ inMedia' = [r \in Remotes |-> "none"]
  /\ mediaHandlers' = {}
  /\ op' = "none"
  /\ joinTarget' = NoId
  /\ requested' = NoId
  /\ emitted' = {"disconnected"}
  /\ pendingAcq' = {[q EXCEPT !.stale = TRUE] : q \in pendingAcq}
  /\ UNCHANGED <<promise, streamCount, genCount>>
  /\ UNCHANGED streamReturned
  /\ UNCHANGED created

\* what connection.send was called with once sendData(data) has returned: the
\* payload is sent when the connection exists and is open
Sent(data) ==
  IF connection # NoConn /\ ConnIsOpen(connection) THEN Append(sentData, data) ELSE sentData

\* sendData(data)
sendData(data) ==
  /\ Len(sentData) < MaxRelay
  /\ sentData' = Sent(data)
  /\ emitted' = {}
  /\ UNCHANGED <<peer, peerId, connection, mediaConnection, localStream, remoteStream,
                 mediaState, participantCount, op, joinTarget, requested, promise,
                 outData, outMedia, inData, inMedia, mediaHandlers, tracks, liveStreams,
                 pendingAcq, streamCount, genCount, streamReturned, created>>

\* the host sends on the data connection this manager opened in joinSession,
\* which has an 'open' and an 'error' handler and no 'data' handler
OutConnData ==
  /\ outData = "open"
  /\ emitted' = {}
  /\ UNCHANGED <<peer, peerId, connection, mediaConnection, localStream, remoteStream,
                 mediaState, participantCount, op, joinTarget, requested, promise,
                 outData, outMedia, inData, inMedia, mediaHandlers, tracks, liveStreams,
                 pendingAcq, streamCount, genCount, streamReturned, created>>

SessionNext ==
  \/ (\E arg \in CreateArgs : createSession(arg)) /\ UNCHANGED besidesSession
  \/ (\E sessionId \in CreateArgs : joinSession(sessionId)) /\ UNCHANGED besidesSession
  \/ CreateOpen /\ UNCHANGED besidesSession
  \/ JoinOpen /\ UNCHANGED besidesSession
  \/ PeerOpenFails /\ UNCHANGED besidesSession
  \/ (\E q \in pendingAcq : GetUserMediaResolve(q)) /\ UNCHANGED besidesSession
  \/ (\E q \in pendingAcq : GetUserMediaReject(q)) /\ UNCHANGED besidesSession
  \/ (\E r \in Remotes : OnCall(r)) /\ UNCHANGED besidesSession
  \/ (\E r \in Remotes : OnConnection(r)) /\ UNCHANGED besidesSession
  \/ (\E r \in Remotes : InConnOpen(r)) /\ UNCHANGED besidesSession
  \/ (\E r \in Remotes : InConnData(r)) /\ UNCHANGED besidesSession
  \/ (\E r \in Remotes : InConnClose(r)) /\ UNCHANGED besidesSession
  \/ PeerDisconnected /\ UNCHANGED besidesSession
  \/ OutConnOpen /\ UNCHANGED besidesSession
  \/ OutConnError /\ UNCHANGED besidesSession
  \/ OutConnClose /\ UNCHANGED besidesSession
  \/ JoinPeerUnavailable /\ UNCHANGED besidesSession
  \/ (\E r \in Remotes : InMediaStream(r)) /\ UNCHANGED besidesSession
  \/ (\E r \in Remotes : InMediaClose(r)) /\ UNCHANGED besidesSession
  \/ OutMediaStream /\ UNCHANGED besidesSession
  \/ OutMediaClose /\ UNCHANGED besidesSession
  \/ OutMediaError /\ UNCHANGED besidesSession
  \/ disconnect /\ UNCHANGED besidesSession


(***************************************************************************)
(* The caption pipeline: CaptionManager, the SpeechRecognitionService it   *)
(* listens to and the translation service it awaits.                       *)
(***************************************************************************)
\* language tags handed to the manager
Languages == {"en", "en-US", "ES-mx"}
\* String.prototype.split('-')[0] over the tags in use
PrimarySubtag(l) ==
  IF l \in {"en-US", "en-GB"} THEN "en" ELSE IF l = "ES-mx" THEN "ES" ELSE l
\* String.prototype.toLowerCase over the subtags in use
ToLowerCase(s) == IF s = "ES" THEN "es" ELSE IF s = "EN" THEN "en" ELSE s
\* TranslationService.normalizeLanguageCode, were the case kept
normalizeLanguageCode_KeepCase(langCode) == PrimarySubtag(langCode)
\* TranslationService.normalizeLanguageCode
normalizeLanguageCode(langCode) == ToLowerCase(PrimarySubtag(langCode))
\* TranslationService.needsTranslation
needsTranslation(sourceLang, targetLang) ==
  normalizeLanguageCode(sourceLang) # normalizeLanguageCode(targetLang)

\* the transcript of the n-th recognition result
Utterance(n) == "u" \o ToString(n)
\* what a translation engine answers for text and a target language
Translated(text, targetLang) == text \o "@" \o normalizeLanguageCode(targetLang)
\* how an awaited translate() call ends: answered by the first engine, by the
\* second, by neither (the service returns the text it was given), or thrown by
\* an injected service
Outcomes == {"libretranslate", "mymemory", "fallback", "rejected"}
\* TranslationService.translate: the translatedText of the result
translate(text, targetLang, outcome) ==
  IF outcome \in {"libretranslate", "mymemory"} THEN Translated(text, targetLang) ELSE text

\* the caption payloads the peer relays: one it left untranslated, relayed as
\* the peer emitted it (speaker local), and one it translated into the language
\* of its own user, marked remote
RemotePayloads ==
  { [text |-> "hey", originalText |-> "hey", speaker |-> "local", isTranslated |-> FALSE],
    [text |-> "hey@fr", originalText |-> "hey", speaker |-> "remote", isTranslated |-> TRUE] }

CaptionInit ==
  /\ isMuted = FALSE
  /\ targetLanguage = "en"
  /\ sourceLanguage = "en"
  /\ captionQueue = <<>>
  /\ captionHandlers = TRUE
  /\ captionEvents = <<>>
  /\ pendingTr = {}
  /\ resultCount = 0
  /\ remoteCount = 0
  /\ isRunning = FALSE
  /\ engine = "idle"

\* SpeechRecognitionService.start throws: the flag is still clear, so
\* recognition.start() is called on an engine that was started and has not
\* ended (InvalidStateError), and the catch block rethrows
SpeechStartThrows == ~isRunning /\ engine # "idle"
\* SpeechRecognitionService.start: the state of the engine after the call
SpeechStart == IF ~isRunning /\ engine = "idle" THEN "starting" ELSE engine
\* SpeechRecognitionService.stop: the state of the engine after the call
SpeechStop == IF isRunning /\ engine = "running" THEN "stopping" ELSE engine

\* the guard of the 'result' listener, without the mute check
ResultDropped_Never == FALSE
\* the guard of the 'result' listener: a result is dropped while muted
ResultDropped == isMuted

\* CaptionManager.emit('caption', c) delivers to every subscriber, twice
Emit_Twice(c) == IF captionHandlers THEN captionEvents \o <<c, c>> ELSE captionEvents
\* CaptionManager.emit('caption', c) as seen by the subscriber
Emit(c) == IF captionHandlers THEN Append(captionEvents, c) ELSE captionEvents

\* the Caption object built by createCaptionFromSpeech and processRemoteCaption
\* (without the id and the timestamp, which no operation of the manager reads
\* before getCaptions)
Caption(text, originalText, speaker, isTranslated) ==
  [text |-> text, originalText |-> originalText, speaker |-> speaker,
   language |-> targetLanguage, isTranslated |-> isTranslated]

\* captionQueue.push(caption); emit('caption', caption)
PushAndEmit(c) ==
  /\ captionQueue' = Append(captionQueue, c)
  /\ captionEvents' = Emit(c)

\* the translate() call a caption builder awaits
Call(k, text, originalText, speaker, isTranslated) ==
  [k |-> k, text |-> text, originalText |-> originalText, speaker |-> speaker,
   isTranslated |-> isTranslated, target |-> targetLanguage]

(***************************************************************************)
(* The operations of CaptionManager.                                       *)
(***************************************************************************)
\* a manager that destroy() has not torn down
Alive == captionHandlers

\* the state of the engine after the CaptionManager called the method
EngineAfter(call) ==
  CASE call = "start" -> SpeechStart
    [] call = "stop" -> SpeechStop
    [] OTHER -> engine

\* the speechService method startLocalCaptions calls
startLocalCaptionsCall == IF ~isMuted THEN "start" ELSE "none"

\* startLocalCaptions(targetLanguage)
startLocalCaptions(language) ==
  /\ Alive
  /\ targetLanguage' = language
  /\ engine' = EngineAfter(startLocalCaptionsCall)
  /\ UNCHANGED <<isMuted, sourceLanguage, captionQueue, captionHandlers, captionEvents,
                 pendingTr, resultCount, remoteCount, isRunning>>

\* stopLocalCaptions(): speechService.stop(), which returns at once when the
\* flag is clear
stopLocalCaptions ==
  /\ Alive
  /\ engine' = SpeechStop
  /\ isRunning' = FALSE
  /\ UNCHANGED <<isMuted, targetLanguage, sourceLanguage, captionQueue, captionHandlers,
                 captionEvents, pendingTr, resultCount, remoteCount>>

\* the speechService method setMuted calls, on every change of the flag
setMutedCall_Always(muted) == IF muted THEN "stop" ELSE "start"
\* the speechService method setMuted calls: wasMuted is this.isMuted
setMutedCall(muted) ==
  IF muted /\ ~isMuted THEN "stop"
  ELSE IF ~muted /\ isMuted THEN "start"
  ELSE "none"

\* setMuted(muted): the flag is assigned before the service is called
setMuted(muted) ==
  /\ Alive
  /\ isMuted' = muted
  /\ engine' = EngineAfter(setMutedCall(muted))
  /\ isRunning' = IF setMutedCall(muted) = "stop" THEN FALSE ELSE isRunning
  /\ UNCHANGED <<targetLanguage, sourceLanguage, captionQueue, captionHandlers,
                 captionEvents, pendingTr, resultCount, remoteCount>>

\* setTargetLanguage(language)
setTargetLanguage(language) ==
  /\ Alive
  /\ language # targetLanguage
  /\ targetLanguage' = language
  /\ UNCHANGED <<isMuted, sourceLanguage, captionQueue, captionHandlers, captionEvents,
                 pendingTr, resultCount, remoteCount, isRunning, engine>>

\* destroy()
destroy ==
  /\ Alive
  /\ engine' = SpeechStop
  /\ isRunning' = FALSE
  /\ captionHandlers' = FALSE
  /\ captionQueue' = <<>>
  /\ UNCHANGED <<isMuted, targetLanguage, sourceLanguage, captionEvents, pendingTr,
                 resultCount, remoteCount>>

\* the engine fires onstart: handleStart
EngineStarted ==
  /\ engine = "starting"
  /\ engine' = "running"
  /\ isRunning' = TRUE
  /\ UNCHANGED <<isMuted, targetLanguage, sourceLanguage, captionQueue, captionHandlers,
                 captionEvents, pendingTr, resultCount, remoteCount>>

\* the engine fires onend: handleEnd; its restart guard reads the flag it has
\* just cleared
EngineEnded ==
  /\ engine \in {"starting", "running", "stopping"}
  /\ engine' = "idle"
  /\ isRunning' = FALSE
  /\ UNCHANGED <<isMuted, targetLanguage, sourceLanguage, captionQueue, captionHandlers,
                 captionEvents, pendingTr, resultCount, remoteCount>>

\* the engine fires onresult: handleResult emits the last result, the 'result'
\* listener of the manager runs handleSpeechResult up to its first await
OnSpeechResult ==
  /\ engine \in {"running", "stopping"}
  /\ resultCount + remoteCount < MaxInputs
  /\ resultCount' = resultCount + 1
  /\ LET text == Utterance(resultCount + 1) IN
       IF ResultDropped
         THEN UNCHANGED <<captionQueue, captionEvents, pendingTr>>
         ELSE IF needsTranslation(sourceLanguage, targetLanguage)
           THEN /\ pendingTr' = pendingTr \cup {Call(resultCount + 1, text, text, "local", FALSE)}
                /\ UNCHANGED <<captionQueue, captionEvents>>
           ELSE /\ PushAndEmit(Caption(text, text, "local", FALSE))
                /\ UNCHANGED pendingTr
  /\ UNCHANGED <<isMuted, targetLanguage, sourceLanguage, captionHandlers, remoteCount,
                 isRunning, engine>>

\* the speaker processRemoteCaption gives its caption
RemoteSpeaker_FromPayload(remoteCaption) == remoteCaption.speaker
RemoteSpeaker(remoteCaption) == "remote"

\* processRemoteCaption(remoteCaption) up to its first await
processRemoteCaption(remoteCaption) ==
  /\ Alive
  /\ resultCount + remoteCount < MaxInputs
  /\ remoteCount' = remoteCount + 1
  /\ IF remoteCaption.originalText # "" /\ needsTranslation(sourceLanguage, targetLanguage)
       THEN /\ pendingTr' = pendingTr \cup
                  {Call(remoteCount + 1, remoteCaption.text, remoteCaption.originalText,
                        RemoteSpeaker(remoteCaption), remoteCaption.isTranslated)}
            /\ UNCHANGED <<captionQueue, captionEvents>>
       ELSE /\ PushAndEmit(Caption(remoteCaption.text, remoteCaption.originalText,
                                   RemoteSpeaker(remoteCaption),
                                   remoteCaption.isTranslated))
            /\ UNCHANGED pendingTr
  /\ UNCHANGED <<isMuted, targetLanguage, sourceLanguage, captionHandlers, resultCount,
                 isRunning, engine>>

\* an awaited translate() call settles and its caption builder runs to its end
TranslationSettles(q, outcome) ==
  /\ q \in pendingTr
  /\ pendingTr' = pendingTr \ {q}
  /\ IF outcome = "rejected"
       THEN PushAndEmit(Caption(q.text, q.originalText, q.speaker, q.isTranslated))
       ELSE PushAndEmit(Caption(translate(q.originalText, q.target, outcome), q.originalText,
                                q.speaker, TRUE))
  /\ UNCHANGED <<isMuted, targetLanguage, sourceLanguage, captionHandlers, resultCount,
                 remoteCount, isRunning, engine>>

CaptionNext ==
  \/ (\E language \in Languages : startLocalCaptions(language)) /\ UNCHANGED besidesCaption
  \/ stopLocalCaptions /\ UNCHANGED besidesCaption
  \/ (\E muted \in BOOLEAN : setMuted(muted)) /\ UNCHANGED besidesCaption
  \/ (\E language \in Languages : setTargetLanguage(language)) /\ UNCHANGED besidesCaption
  \/ destroy /\ UNCHANGED besidesCaption
  \/ EngineStarted /\ UNCHANGED besidesCaption
  \/ EngineEnded /\ UNCHANGED besidesCaption
  \/ OnSpeechResult /\ UNCHANGED besidesCaption
  \/ (\E remoteCaption \in RemotePayloads : processRemoteCaption(remoteCaption))
       /\ UNCHANGED besidesCaption
  \/ (\E q \in pendingTr, outcome \in Outcomes : TranslationSettles(q, outcome))
       /\ UNCHANGED besidesCaption


(***************************************************************************)
(* TranslationService.translate, one call at a time, with its two engines  *)
(* as the environment.                                                     *)
(***************************************************************************)
\* the language tags and texts translate() is called with
TranslateTags == {"en", "en-US", "en-GB", "EN", "es", "ES-mx"}
TranslateTexts == {"hi", "bye"}
\* how a fetch to LibreTranslate ends: an ok response, a response with a
\* non-success status (a rate limit among them), a network error
LibreReplies == {"ok", "status", "network"}
\* how a fetch to MyMemory ends: as above, or an ok response whose
\* responseStatus is not 200
MyMemoryReplies == {"ok", "status", "responseStatus", "network"}
NoCall == [text |-> "", sourceLang |-> "", targetLang |-> ""]
NoResult == [translatedText |-> "", service |-> "none"]

\* the text an engine answers to a request, which carries the normalized codes
EngineAnswer(service, call) ==
  service \o ":" \o normalizeLanguageCode(call.sourceLang) \o ">"
         \o normalizeLanguageCode(call.targetLang) \o ":" \o call.text

\* translateWithLibreTranslate / translateWithMyMemory throw, were only a
\* network error a failure
EngineThrows_NetworkOnly(reply) == reply = "network"
\* translateWithLibreTranslate / translateWithMyMemory throw
EngineThrows(reply) == reply # "ok"

TranslateInit ==
  /\ trStage = "idle"
  /\ trCall = NoCall
  /\ trResult = NoResult
  /\ libreCalls = 0
  /\ myMemoryCalls = 0
  /\ libreReply = "none"
  /\ myMemoryReply = "none"

\* translate(text, sourceLang, targetLang) up to its first await
translateCall(text, sourceLang, targetLang) ==
  /\ trStage \in {"idle", "done"}
  /\ trCall' = [text |-> text, sourceLang |-> sourceLang, targetLang |-> targetLang]
  /\ libreReply' = "none"
  /\ myMemoryReply' = "none"
  /\ myMemoryCalls' = 0
  /\ IF needsTranslation(sourceLang, targetLang)
       THEN /\ trStage' = "libre"
            /\ libreCalls' = 1
            /\ trResult' = NoResult
       ELSE /\ trStage' = "done"
            /\ libreCalls' = 0
            /\ trResult' = [translatedText |-> text, service |-> "fallback"]

\* the LibreTranslate fetch ends: translate() returns or goes on to MyMemory
LibreSettles(reply) ==
  /\ trStage = "libre"
  /\ libreReply' = reply
  /\ IF EngineThrows(reply)
       THEN /\ trStage' = "mymemory"
            /\ myMemoryCalls' = myMemoryCalls + 1
            /\ UNCHANGED trResult
       ELSE /\ trStage' = "done"
            /\ trResult' = [translatedText |-> EngineAnswer("libretranslate", trCall),
                            service |-> "libretranslate"]
            /\ UNCHANGED myMemoryCalls
  /\ UNCHANGED <<trCall, libreCalls, myMemoryReply>>

\* the MyMemory fetch ends: translate() returns its text or the original text
MyMemorySettles(reply) ==
  /\ trStage = "mymemory"
  /\ myMemoryReply' = reply
  /\ trStage' = "done"
  /\ trResult' = IF EngineThrows(reply)
                   THEN [translatedText |-> trCall.text, service |-> "fallback"]
                   ELSE [translatedText |-> EngineAnswer("mymemory", trCall),
                         service |-> "mymemory"]
  /\ UNCHANGED <<trCall, libreCalls, myMemoryCalls, libreReply>>

TranslateNext ==
  \/ (\E text \in TranslateTexts, sourceLang \in TranslateTags, targetLang \in TranslateTags :
        translateCall(text, sourceLang, targetLang)) /\ UNCHANGED besidesTranslate
  \/ (\E reply \in LibreReplies : LibreSettles(reply)) /\ UNCHANGED besidesTranslate
  \/ (\E reply \in MyMemoryReplies : MyMemorySettles(reply)) /\ UNCHANGED besidesTranslate

(***************************************************************************)
(* CaptionManager.getCaptions over a log whose captions carry timestamps.  *)
(***************************************************************************)
QueueInit ==
  /\ stampedQueue = <<>>
  /\ captionsView = <<>>

\* the comparator of getCaptions: (a, b) => a.timestamp - b.timestamp
compare(a, b) == a.timestamp - b.timestamp
\* the sort moves b before a, were ties moved too
MustPrecede_Ties(b, a) == compare(a, b) >= 0
\* Array.prototype.sort moves b before a only if the comparator is positive
\* (the sort is stable)
MustPrecede(b, a) == compare(a, b) > 0

RECURSIVE InsertSorted(_, _)
\* one caption placed into a sorted array, behind the captions it does not precede
InsertSorted(s, c) ==
  IF s = <<>> THEN <<c>>
  ELSE IF MustPrecede(c, s[Len(s)])
    THEN Append(InsertSorted(SubSeq(s, 1, Len(s) - 1), c), s[Len(s)])
    ELSE Append(s, c)

RECURSIVE sort(_)
\* [...captionQueue].sort(compare)
sort(s) ==
  IF s = <<>> THEN <<>> ELSE InsertSorted(sort(SubSeq(s, 1, Len(s) - 1)), s[Len(s)])

\* a caption is built at time Date.now() and pushed to the log
PushStamped(time) ==
  /\ Len(stampedQueue) < MaxLog
  /\ stampedQueue' = Append(stampedQueue, [seq |-> Len(stampedQueue) + 1, timestamp |-> time])
  /\ UNCHANGED captionsView

\* getCaptions()
getCaptions ==
  /\ captionsView' = sort(stampedQueue)
  /\ UNCHANGED stampedQueue

\* clearCaptions()
clearCaptions ==
  /\ stampedQueue' = <<>>
  /\ UNCHANGED captionsView

QueueNext ==
  \/ (\E time \in 0..MaxStamp : PushStamped(time)) /\ UNCHANGED besidesQueue
  \/ getCaptions /\ UNCHANGED besidesQueue
  \/ clearCaptions /\ UNCHANGED besidesQueue

(***************************************************************************)
(* SpeechRecognitionService.handleResult: the engine's result events.      *)
(***************************************************************************)
Confidences == {3, 9}   \* in tenths

\* the segment the engine recognised as the i-th of the session
Segment(i, isFinal, confidence) ==
  [transcript |-> i, isFinal |-> isFinal, confidence |-> confidence]

\* the RecognitionResult built from a segment's first alternative
RecognitionResult(segment) ==
  [text |-> segment.transcript, isFinal |-> segment.isFinal,
   confidence |-> segment.confidence]

\* the results handleResult emits of an event whose results list is list:
\* results[results.length - 1], event.resultIndex is not read
Emitted(list) ==
  IF Len(list) > 0 THEN <<RecognitionResult(list[Len(list)])>> ELSE <<>>

ResultsInit ==
  /\ results = <<>>
  /\ resultEvents = <<>>

\* recognition.onresult: the engine appends count new segments to its results
\* list and fires one event; handleResult runs
handleResult(count, isFinal, confidence) ==
  /\ Len(results) + count <= MaxSegments
  /\ LET added == [i \in 1..count |-> Segment(Len(results) + i, isFinal[i], confidence[i])]
         list == results \o added
     IN /\ results' = list
        /\ resultEvents' = resultEvents \o Emitted(list)

ResultsNext ==
  \/ (\E count \in 1..MaxBatch :
        \E isFinal \in [1..count -> BOOLEAN], confidence \in [1..count -> Confidences] :
          handleResult(count, isFinal, confidence))
       /\ UNCHANGED besidesResults

\* the caption messages a peer relays on the data channel
RelayPayloads == {"c1", "c2"}

RelayInit ==
  /\ sentData = <<>>
  /\ arrived = <<>>
  /\ received = <<>>

\* a caption message of the peer arrives on the open data connection; the
\* hook's webrtcManager.on('data') listener runs if the manager emits 'data'
PeerSends(data) ==
  /\ Len(arrived) < MaxRelay
  /\ arrived' = Append(arrived, data)
  /\ received' = IF "data" \in emitted' THEN Append(received, data) ELSE received
  /\ UNCHANGED sentData

\* a manager and a caption pipeline as constructed
ObservedInit ==
  /\ called = "none"
  /\ adapterCall = "none"
  /\ raised = FALSE
  /\ wanted = FALSE

\* useState(true) for both controls
HookInit ==
  /\ audioEnabled = TRUE
  /\ videoEnabled = TRUE

Init ==
  /\ SessionInit /\ CaptionInit /\ TranslateInit /\ QueueInit
  /\ ObservedInit /\ ResultsInit /\ RelayInit /\ HookInit

\* the session orchestrator alone
SpecSession == Init /\ [][SessionNext]_vars

\* the caption pipeline alone
SpecCaption == Init /\ [][CaptionNext]_vars

\* the media operations of the orchestrator on a host with one remote
\* participant: the local stream, the two toggles and disconnect
MediaRemotes == {"r1"}

MediaNext ==
  \/ (\E arg \in CreateArgs : createSession(arg)) /\ UNCHANGED besidesSession
  \/ CreateOpen /\ UNCHANGED besidesSession
  \/ (\E r \in MediaRemotes : OnConnection(r)) /\ UNCHANGED besidesSession
  \/ (\E r \in MediaRemotes : OnCall(r)) /\ UNCHANGED besidesSession
  \/ (\E r \in MediaRemotes : InMediaStream(r)) /\ UNCHANGED besidesSession
  \/ getLocalStream /\ UNCHANGED besidesSession
  \/ (\E q \in pendingAcq : GetUserMediaResolve(q)) /\ UNCHANGED besidesSession
  \/ (\E q \in pendingAcq : GetUserMediaReject(q)) /\ UNCHANGED besidesSession
  \/ (\E enabled \in BOOLEAN : toggleAudio(enabled)) /\ UNCHANGED besidesSession
  \/ (\E enabled \in BOOLEAN : toggleVideo(enabled)) /\ UNCHANGED besidesSession
  \/ disconnect /\ UNCHANGED besidesSession

SpecMedia == Init /\ [][MediaNext]_vars

\* what the caller of an operation that called the method observes
Observed(operation, call) ==
  /\ called' = operation
  /\ adapterCall' = call
  /\ raised' = (call = "start" /\ SpeechStartThrows)
  /\ wanted' = IF call = "none" THEN wanted ELSE call = "start"

\* the events of the engine and of the translation service in the lifecycle
SpeechEngineStarted == EngineStarted /\ Observed("none", "none") /\ UNCHANGED besidesSpeech
SpeechEngineEnded == EngineEnded /\ Observed("none", "none") /\ UNCHANGED besidesSpeech
SpeechTranslationSettles ==
  (\E q \in pendingTr, outcome \in Outcomes :
     TranslationSettles(q, outcome) /\ Observed("none", "none"))
    /\ UNCHANGED besidesSpeech

\* the recognition lifecycle: the operations of the CaptionManager that drive
\* the speech service, the engine's start and end events and its results
SpeechNext ==
  \/ (\E language \in Languages :
        startLocalCaptions(language) /\ Observed("startLocalCaptions", startLocalCaptionsCall))
       /\ UNCHANGED besidesSpeech
  \/ stopLocalCaptions /\ Observed("stopLocalCaptions", "stop") /\ UNCHANGED besidesSpeech
  \/ (\E muted \in BOOLEAN : setMuted(muted) /\ Observed("setMuted", setMutedCall(muted)))
       /\ UNCHANGED besidesSpeech
  \/ destroy /\ Observed("destroy", "stop") /\ UNCHANGED besidesSpeech
  \/ SpeechEngineStarted
  \/ SpeechEngineEnded
  \/ OnSpeechResult /\ Observed("none", "none") /\ UNCHANGED besidesSpeech
  \/ SpeechTranslationSettles

SpecSpeech == Init /\ [][SpeechNext]_vars

\* what the engine and the translation services are bound to do: a requested
\* start is followed by the start event, a requested stop by the end event,
\* and an awaited translate() call settles.  Nothing obliges the user to call
\* an operation, nor the engine to end or to deliver a result.
SpeechFairness ==
  /\ WF_vars(SpeechEngineStarted)
  /\ WF_vars(SpeechEngineEnded /\ engine = "stopping")
  /\ WF_vars(SpeechTranslationSettles)

SpecSpeechLive == Init /\ [][SpeechNext]_vars /\ SpeechFairness

(***************************************************************************)
(* useVideoCall.startCall binds the manager's 'data' event to                *)
(* processRemoteCaption and the local captions to sendData.                  *)
(***************************************************************************)
\* the caption relay of a manager, as a host and as a joiner
RelayNext ==
  \/ (\E arg \in CreateArgs : createSession(arg)) /\ UNCHANGED <<relayVars, besidesRelay>>
  \/ (\E sessionId \in CreateArgs : joinSession(sessionId))
       /\ UNCHANGED <<relayVars, besidesRelay>>
  \/ CreateOpen /\ UNCHANGED <<relayVars, besidesRelay>>
  \/ JoinOpen /\ UNCHANGED <<relayVars, besidesRelay>>
  \/ PeerOpenFails /\ UNCHANGED <<relayVars, besidesRelay>>
  \/ (\E q \in pendingAcq : GetUserMediaResolve(q)) /\ UNCHANGED <<relayVars, besidesRelay>>
  \/ (\E r \in MediaRemotes : OnConnection(r)) /\ UNCHANGED <<relayVars, besidesRelay>>
  \/ (\E r \in MediaRemotes : InConnOpen(r)) /\ UNCHANGED <<relayVars, besidesRelay>>
  \/ (\E r \in MediaRemotes : InConnClose(r)) /\ UNCHANGED <<relayVars, besidesRelay>>
  \/ OutConnOpen /\ UNCHANGED <<relayVars, besidesRelay>>
  \/ OutConnClose /\ UNCHANGED <<relayVars, besidesRelay>>
  \/ (\E r \in MediaRemotes, data \in RelayPayloads : InConnData(r) /\ PeerSends(data))
       /\ UNCHANGED besidesRelay
  \/ (\E data \in RelayPayloads : OutConnData /\ PeerSends(data)) /\ UNCHANGED besidesRelay
  \/ (\E data \in RelayPayloads : sendData(data)) /\ UNCHANGED <<arrived, received, besidesRelay>>
  \/ disconnect /\ UNCHANGED <<relayVars, besidesRelay>>

SpecRelay == Init /\ [][RelayNext]_vars

(***************************************************************************)
(* The call as useVideoCall runs it on a host: one WebRTCManager and one   *)
(* CaptionManager with the bindings startCall, toggleAudio and toggleVideo  *)
(* put between them.                                                        *)
(***************************************************************************)
\* the thread of control while a translate() call is awaited, were the await
\* to hold it until the call returned
AwaitHoldsThread_UntilSettled == pendingTr # {}
\* the thread of control while a translate() call is awaited: await returns
\* to the event loop, which runs the next handler
AwaitHoldsThread == FALSE

\* webrtcManagerRef.current is set: startCall has constructed the manager
ManagerExists == genCount > 0
\* startCall has registered its relay listener: createSession has returned
RelayRegistered == promise = "resolved"
\* the test of the relay listener, were every caption relayed
Relayed_All(caption) == TRUE
\* the test of the relay listener: data.speaker === 'local'
Relayed(caption) == caption.speaker = "local"
\* the message the relay listener hands to sendData
CaptionMessage(caption) == [type |-> "caption", caption |-> caption]

\* the 'caption' listeners of the hook after a step of the CaptionManager: the
\* relay listener hands a caption that was emitted to sendData
CaptionListeners ==
  sentData' = IF captionEvents' # captionEvents /\ RelayRegistered
                   /\ Relayed(captionEvents'[Len(captionEvents')])
                THEN Sent(CaptionMessage(captionEvents'[Len(captionEvents')]))
                ELSE sentData

\* startCall up to its first await: new WebRTCManager, createSession(sessionId)
startCall ==
  /\ ~AwaitHoldsThread
  /\ createSession(FreeId)
  /\ UNCHANGED <<captionVars, relayVars, hookVars>>

\* the endpoint opens and startCall continues in the same turn of the event
\* loop: startLocalCaptions(selectedLanguage) and the relay listener
startCallContinues ==
  /\ ~AwaitHoldsThread
  /\ CreateOpen
  /\ startLocalCaptions(targetLanguage)
  /\ UNCHANGED <<relayVars, hookVars>>

\* toggleAudio of the hook: webrtcManager.toggleAudio(newState),
\* setAudioEnabled(newState), captionManager.setMuted(!newState)
hookToggleAudio ==
  /\ ~AwaitHoldsThread
  /\ ManagerExists
  /\ toggleAudio(~audioEnabled)
  /\ audioEnabled' = ~audioEnabled
  /\ setMuted(audioEnabled)
  /\ UNCHANGED <<videoEnabled, relayVars>>

\* toggleVideo of the hook: webrtcManager.toggleVideo(newState),
\* setVideoEnabled(newState)
hookToggleVideo ==
  /\ ~AwaitHoldsThread
  /\ ManagerExists
  /\ toggleVideo(~videoEnabled)
  /\ videoEnabled' = ~videoEnabled
  /\ UNCHANGED <<audioEnabled, captionVars, relayVars>>

\* setSelectedLanguage(language): the effect calls setTargetLanguage.  The
\* language startCall captured is the selected one: it is not changed while
\* startCall awaits the endpoint.
setSelectedLanguage(language) ==
  /\ ~AwaitHoldsThread
  /\ peer # "opening"
  /\ setTargetLanguage(language)
  /\ UNCHANGED <<sessionVars, relayVars, hookVars>>

\* an event of the Peer, of a connection or of getUserMedia reaches the manager
CallSessionEvent(handler) ==
  /\ ~AwaitHoldsThread
  /\ handler
  /\ UNCHANGED <<captionVars, relayVars, hookVars>>

\* an event of the engine or a settled translate() call reaches the
\* CaptionManager, and the caption it emits reaches the relay listener
CallCaptionEvent(handler) ==
  /\ ~AwaitHoldsThread
  /\ handler
  /\ CaptionListeners
  /\ UNCHANGED <<sessionVars, arrived, received, hookVars>>

\* a caption message of the peer arrives: the manager emits 'data' and the
\* hook's listener calls processRemoteCaption(data.caption)
CallPeerCaption(r, remoteCaption) ==
  /\ ~AwaitHoldsThread
  /\ InConnData(r)
  /\ processRemoteCaption(remoteCaption)
  /\ CaptionListeners
  /\ UNCHANGED <<arrived, received, hookVars>>

CallNext ==
  \/ startCall /\ UNCHANGED <<translateVars, queueVars, observedVars, resultVars>>
  \/ startCallContinues /\ UNCHANGED <<translateVars, queueVars, observedVars, resultVars>>
  \/ hookToggleAudio /\ UNCHANGED <<translateVars, queueVars, observedVars, resultVars>>
  \/ hookToggleVideo /\ UNCHANGED <<translateVars, queueVars, observedVars, resultVars>>
  \/ (\E language \in Languages : setSelectedLanguage(language))
       /\ UNCHANGED <<translateVars, queueVars, observedVars, resultVars>>
  \/ (\E r \in MediaRemotes : CallSessionEvent(OnConnection(r)))
       /\ UNCHANGED <<translateVars, queueVars, observedVars, resultVars>>
  \/ (\E r \in MediaRemotes : CallSessionEvent(OnCall(r)))
       /\ UNCHANGED <<translateVars, queueVars, observedVars, resultVars>>
  \/ (\E q \in pendingAcq : CallSessionEvent(GetUserMediaResolve(q)))
       /\ UNCHANGED <<translateVars, queueVars, observedVars, resultVars>>
  \/ CallCaptionEvent(EngineStarted)
       /\ UNCHANGED <<translateVars, queueVars, observedVars, resultVars>>
  \/ CallCaptionEvent(OnSpeechResult)
       /\ UNCHANGED <<translateVars, queueVars, observedVars, resultVars>>
  \/ (\E q \in pendingTr, outcome \in Outcomes :
        CallCaptionEvent(TranslationSettles(q, outcome)))
       /\ UNCHANGED <<translateVars, queueVars, observedVars, resultVars>>

SpecCall == Init /\ [][CallNext]_vars

\* the caption relay of the call: the captions of the local speaker and the
\* caption messages of the peer on a host whose data channel opens
EchoNext ==
  \/ startCall /\ UNCHANGED <<translateVars, queueVars, observedVars, resultVars>>
  \/ startCallContinues /\ UNCHANGED <<translateVars, queueVars, observedVars, resultVars>>
  \/ (\E language \in Languages : setSelectedLanguage(language))
       /\ UNCHANGED <<translateVars, queueVars, observedVars, resultVars>>
  \/ (\E r \in MediaRemotes : CallSessionEvent(OnConnection(r)))
       /\ UNCHANGED <<translateVars, queueVars, observedVars, resultVars>>
  \/ (\E r \in MediaRemotes : CallSessionEvent(InConnOpen(r)))
       /\ UNCHANGED <<translateVars, queueVars, observedVars, resultVars>>
  \/ CallCaptionEvent(EngineStarted)
       /\ UNCHANGED <<translateVars, queueVars, observedVars, resultVars>>
  \/ CallCaptionEvent(OnSpeechResult)
       /\ UNCHANGED <<translateVars, queueVars, observedVars, resultVars>>
  \/ (\E q \in pendingTr, outcome \in Outcomes :
        CallCaptionEvent(TranslationSettles(q, outcome)))
       /\ UNCHANGED <<translateVars, queueVars, observedVars, resultVars>>
  \/ (\E r \in MediaRemotes, remoteCaption \in RemotePayloads :
        CallPeerCaption(r, remoteCaption))
       /\ UNCHANGED <<translateVars, queueVars, observedVars, resultVars>>

SpecEcho == Init /\ [][EchoNext]_vars

\* the speech service's result events alone
SpecResults == Init /\ [][ResultsNext]_vars

\* the translation service alone
SpecTranslate == Init /\ [][TranslateNext]_vars

\* the caption log and getCaptions alone
SpecQueue == Init /\ [][QueueNext]_vars


(***************************************************************************)
(* Properties of the session orchestrator, checked under SpecSession.      *)
(***************************************************************************)
\* the remotes that hold a live accepted connection with this manager
AttachedRemotes ==
  {r \in Remotes : inData[r] \in {"accepted", "open"} \/ inMedia[r] \in {"active", "streaming"}}
    \cup (IF outData = "open" \/ outMedia = "streaming" THEN {joinTarget} ELSE {})

\* a connection this manager references is closed from the remote side
RemoteDeparts ==
  \/ \E r \in Remotes : InConnClose(r) /\ connection = InConn(r)
  \/ \E r \in Remotes : InMediaClose(r) /\ mediaConnection = InConn(r)
  \/ OutConnClose /\ outData = "open" /\ connection = OutConn(joinTarget)
  \/ OutMediaClose /\ mediaConnection = OutConn(joinTarget)

\* C1: whenever participantCount is 2, an inbound media call or data connection
\* is closed by its handler at once and changes nothing: participantCount stays
\* 2 and this.connection, this.mediaConnection and this.remoteStream keep their
\* values.
C1_FullSessionRejectsInbound ==
  [][\A r \in Remotes :
       (participantCount = 2 /\ (OnCall(r) \/ OnConnection(r)))
         => /\ participantCount' = 2
            /\ UNCHANGED <<connection, mediaConnection, remoteStream, localStream,
                           mediaHandlers, pendingAcq>>
            /\ (OnCall(r) => inMedia'[r] = "rejected")
            /\ (OnConnection(r) => inData'[r] = "rejected")]_vars

\* a third party was turned away by a manager paired with r1
C1_Witness ==
  /\ participantCount = 2
  /\ connection = InConn("r1")
  /\ inData["r2"] = "rejected"
  /\ inMedia["r2"] = "rejected"

\* C2: two endpoints started with the same identity S: the first createSession
\* opens under S and is the host, the second endpoint's createSession with S
\* (which a host holds) fails so that it falls back to joinSession(S).
C2_SharedIdentityDecidesRoles ==
  /\ (op = "create" /\ peer = "open" /\ requested # NoId) => peerId = requested
  /\ (op = "create" /\ requested \in Remotes) => peer # "open"

\* C3: joinSession resolves only when the data channel has opened and the media
\* call is placed, and a failure of the data connection makes joinSession fail.
C3_JoinCompletesAfterBothSucceed ==
  [][/\ (op = "join" /\ promise = "pending" /\ promise' = "resolved")
          => (outData' = "open" /\ outMedia' \in {"ringing", "streaming"})
     /\ (op = "join" /\ (OutConnError \/ JoinPeerUnavailable)) => promise' = "rejected"]_vars

\* C4: when the remote of a paired manager departs (its data connection or its
\* media connection closes), participantCount reverts from 2 to 1, remoteStream
\* is cleared and peer-disconnected is emitted, as host and as joiner.
C4_DepartureRevertsToOpen ==
  [][(participantCount = 2 /\ RemoteDeparts)
       => /\ participantCount' = 1
          /\ remoteStream' = NoId
          /\ "peer-disconnected" \in emitted']_vars

\* C5: after the remote has departed, the open endpoint accepts the next
\* inbound call or data connection of a new peer.
C5_OpenEndpointPairsAgain ==
  [][\A r \in Remotes :
       (AttachedRemotes = {} /\ pendingAcq = {})
         => /\ (OnConnection(r) => inData'[r] = "accepted")
            /\ (OnCall(r) => inMedia'[r] \in {"awaiting", "active"})]_vars

\* C6: participantCount is one of 0, 1, 2 and follows the endpoint: 0 before the
\* endpoint is open, 1 while it is open with no remote attached (after
\* createSession and after joinSession alike), 2 only while exactly one remote
\* is attached.
C6_CountFollowsEndpoint ==
  /\ participantCount \in {0, 1, 2}
  /\ (peer \in {"opening", "failed"} => participantCount = 0)
  /\ (peer = "open" /\ AttachedRemotes = {} /\ pendingAcq = {} => participantCount = 1)
  /\ (participantCount = 2 /\ peer = "open" => Cardinality(AttachedRemotes) = 1)


(***************************************************************************)
(* Properties of the caption pipeline, checked under SpecCaption.          *)
(***************************************************************************)
\* the translate() calls awaited on behalf of recognition results
LocalPending == {q \in pendingTr : q.speaker = "local"}
IsLocal(c) == c.speaker = "local"
\* the captions of a log or of an event stream that come from recognition results
LocalCaptions(log) == SelectSeq(log, IsLocal)
\* this step appends exactly the caption c to the log and delivers it once
YieldsOne(c) ==
  /\ captionQueue' = Append(captionQueue, c)
  /\ captionEvents' = Append(captionEvents, c)
\* the newest caption of the log after this step
Newest == captionQueue'[Len(captionQueue')]

\* C7: a recognition result that arrives while isMuted is true adds no caption
\* to the log, delivers no caption event and starts no translate() call.
C7_MutedResultDiscarded ==
  [][(isMuted /\ resultCount' = resultCount + 1)
       => UNCHANGED <<captionQueue, captionEvents, pendingTr>>]_vars

\* results were delivered to a muted manager and left no trace
C7_Witness ==
  /\ isMuted /\ captionHandlers
  /\ resultCount = 2 /\ remoteCount = 0
  /\ captionQueue = <<>> /\ captionEvents = <<>> /\ pendingTr = {}

\* C8: when the translate() call of a recognition result settles while isMuted
\* is true, no caption is added to the log and no caption event is delivered.
C8_LateTranslationDiscarded ==
  [][\A q \in LocalPending :
       (isMuted /\ q \notin pendingTr') => UNCHANGED <<captionQueue, captionEvents>>]_vars

\* C9: until destroy(), across every sequence of setMuted calls: a result that
\* arrives while isMuted is false starts exactly one translate() call or yields
\* exactly one caption in the log and one caption event, a translate() call
\* awaited for a result never ends without yielding exactly one caption and one
\* event for that result, a result that arrives while muted yields nothing, and
\* no other step adds or removes a caption of a recognition result.
C9_OneCaptionPerUnmutedResult ==
  [][captionHandlers' =>
       /\ (resultCount' = resultCount + 1 /\ ~isMuted) =>
            \/ /\ UNCHANGED <<captionQueue, captionEvents>>
               /\ \E q \in LocalPending' \ LocalPending :
                    /\ pendingTr' = pendingTr \cup {q}
                    /\ q.originalText = Utterance(resultCount')
            \/ /\ UNCHANGED pendingTr
               /\ captionQueue' # <<>>
               /\ YieldsOne(Newest)
               /\ IsLocal(Newest) /\ Newest.originalText = Utterance(resultCount')
       /\ (resultCount' = resultCount + 1 /\ isMuted) =>
            UNCHANGED <<captionQueue, captionEvents, pendingTr>>
       /\ \A q \in LocalPending : q \notin pendingTr' =>
            /\ pendingTr' = pendingTr \ {q}
            /\ captionQueue' # <<>>
            /\ YieldsOne(Newest)
            /\ IsLocal(Newest) /\ Newest.originalText = q.originalText
       /\ (resultCount' = resultCount /\ LocalPending' = LocalPending) =>
            /\ LocalCaptions(captionQueue') = LocalCaptions(captionQueue)
            /\ LocalCaptions(captionEvents') = LocalCaptions(captionEvents)]_vars

\* the first result was dropped by a muted manager and the result after the
\* unmute yielded the one caption of the log
C9_Witness ==
  /\ ~isMuted /\ captionHandlers
  /\ resultCount = 2 /\ remoteCount = 0 /\ pendingTr = {}
  /\ Len(captionEvents) = 1 /\ captionQueue = captionEvents
  /\ captionEvents[1].originalText = Utterance(2)

\* C10: when the translate() call awaited for a caption throws, exactly one
\* caption is still added to the log and delivered, carrying the original text
\* and isTranslated = FALSE; a call that returns yields exactly one caption
\* carrying the returned text and isTranslated = TRUE, whatever happened to the
\* calls before it; no awaited call ends without its caption.
C10_FailedTranslationKeepsOriginal ==
  [][captionHandlers' =>
       \A q \in pendingTr : q \notin pendingTr' =>
         /\ pendingTr' = pendingTr \ {q}
         /\ captionQueue' # <<>>
         /\ YieldsOne(Newest)
         /\ Newest.originalText = q.originalText /\ Newest.speaker = q.speaker
         /\ \/ Newest.text = q.originalText /\ ~Newest.isTranslated
            \/ /\ \E outcome \in Outcomes \ {"rejected"} :
                    Newest.text = translate(q.originalText, q.target, outcome)
               /\ Newest.isTranslated]_vars

\* C11: when the translate() call awaited by processRemoteCaption throws, the
\* remote caption that is emitted has text = originalText and isTranslated =
\* FALSE, whatever text and flag the payload carried.
C11_RemoteFallbackIsOriginal ==
  [][\A q \in pendingTr :
       (q.speaker = "remote" /\ TranslationSettles(q, "rejected"))
         => /\ Newest.text = q.originalText
            /\ ~Newest.isTranslated]_vars

\* text and originalText of a caption agree exactly when it is not translated
TextMatchesFlag(c) == (c.text = c.originalText) <=> ~c.isTranslated

\* C12: every caption in the log and every caption delivered to the subscriber
\* has text = originalText if and only if isTranslated is FALSE.
C12_TextEqualsOriginalIffUntranslated ==
  /\ \A i \in 1..Len(captionQueue) : TextMatchesFlag(captionQueue[i])
  /\ \A i \in 1..Len(captionEvents) : TextMatchesFlag(captionEvents[i])

(***************************************************************************)
(* Properties of TranslationService.translate, checked under SpecTranslate.*)
(***************************************************************************)
\* the replies with which an engine fails
FailedReplies == {"status", "responseStatus", "network"}

\* C13: for a source and a target that need translation translate() always
\* returns: the LibreTranslate text tagged libretranslate when that engine
\* answers, MyMemory not being called; else the MyMemory text tagged mymemory
\* when that engine answers; else the text it was given tagged fallback; each
\* engine that was tried was sent exactly one request.
C13_TranslateTriesEnginesInOrder ==
  needsTranslation(trCall.sourceLang, trCall.targetLang) =>
    /\ trStage \in {"libre", "mymemory", "done"}
    /\ libreCalls = 1
    /\ trStage = "libre" => myMemoryCalls = 0 /\ libreReply = "none"
    /\ trStage = "mymemory" =>
         myMemoryCalls = 1 /\ libreReply \in FailedReplies /\ myMemoryReply = "none"
    /\ trStage = "done" =>
         \/ /\ libreReply = "ok" /\ myMemoryCalls = 0 /\ myMemoryReply = "none"
            /\ trResult = [translatedText |-> EngineAnswer("libretranslate", trCall),
                           service |-> "libretranslate"]
         \/ /\ libreReply \in FailedReplies /\ myMemoryCalls = 1 /\ myMemoryReply = "ok"
            /\ trResult = [translatedText |-> EngineAnswer("mymemory", trCall),
                           service |-> "mymemory"]
         \/ /\ libreReply \in FailedReplies /\ myMemoryCalls = 1
            /\ myMemoryReply \in FailedReplies
            /\ trResult = [translatedText |-> trCall.text, service |-> "fallback"]

\* LibreTranslate answered with a non-success status, MyMemory was unreachable
\* and translate() returned the text it was given
C13_Witness ==
  /\ trStage = "done" /\ trCall.sourceLang = "en-US" /\ trCall.targetLang = "ES-mx"
  /\ libreReply = "status" /\ myMemoryReply = "network"
  /\ trResult = [translatedText |-> trCall.text, service |-> "fallback"]

\* the tags of one language, whatever their region and their case
EnglishTags == {"en", "en-US", "en-GB", "EN"}
SpanishTags == {"es", "ES-mx"}
SameLanguage(s, t) ==
  (s \in EnglishTags /\ t \in EnglishTags) \/ (s \in SpanishTags /\ t \in SpanishTags)

\* C14: a translate() call whose source and target tags name the same language
\* (region stripped, case ignored) returns at once the text it was given tagged
\* fallback and sends no request to either engine.
C14_SameLanguageSkipsEngines ==
  (trStage # "idle" /\ SameLanguage(trCall.sourceLang, trCall.targetLang)) =>
    /\ trStage = "done"
    /\ libreCalls = 0 /\ myMemoryCalls = 0
    /\ libreReply = "none" /\ myMemoryReply = "none"
    /\ trResult = [translatedText |-> trCall.text, service |-> "fallback"]

\* translate("hi", "EN", "en-GB") has returned
C14_Witness ==
  /\ trStage = "done"
  /\ trCall = [text |-> "hi", sourceLang |-> "EN", targetLang |-> "en-GB"]
  /\ trResult = [translatedText |-> "hi", service |-> "fallback"]

(***************************************************************************)
(* Properties of getCaptions, checked under SpecQueue.                     *)
(***************************************************************************)
\* C15: getCaptions() leaves the log unchanged and returns a permutation of it
\* in non-decreasing timestamp order in which captions of equal timestamp keep
\* their insertion order.
C15_GetCaptionsSortsStably ==
  [][getCaptions =>
       /\ UNCHANGED stampedQueue
       /\ Len(captionsView') = Len(stampedQueue)
       /\ \A i \in 1..Len(stampedQueue) :
            \E j \in 1..Len(captionsView') : captionsView'[j] = stampedQueue[i]
       /\ \A i, j \in 1..Len(captionsView') :
            i < j => \/ captionsView'[i].timestamp < captionsView'[j].timestamp
                     \/ /\ captionsView'[i].timestamp = captionsView'[j].timestamp
                        /\ captionsView'[i].seq < captionsView'[j].seq]_vars

\* a log pushed with timestamps 2, 1, 1 was returned as the captions 2, 3, 1
C15_Witness ==
  /\ stampedQueue = <<[seq |-> 1, timestamp |-> 2], [seq |-> 2, timestamp |-> 1],
                      [seq |-> 3, timestamp |-> 1]>>
  /\ captionsView = <<[seq |-> 2, timestamp |-> 1], [seq |-> 3, timestamp |-> 1],
                      [seq |-> 1, timestamp |-> 2]>>

(***************************************************************************)
(* The media operations (SpecMedia).                                       *)
(***************************************************************************)
\* C16: whatever the state disconnect() is called in (no session, no stream,
\* paired, already disconnected), it leaves ParticipantCount 0, the default
\* MediaState, no local or remote stream, no data connection, no media
\* connection and no endpoint, and it emits disconnected.
C16_DisconnectResets ==
  [][disconnect =>
       /\ participantCount' = 0
       /\ mediaState' = [audioEnabled |-> TRUE, videoEnabled |-> TRUE,
                         stream |-> NoStream]
       /\ localStream' = NoStream
       /\ remoteStream' = NoId
       /\ connection' = NoConn
       /\ mediaConnection' = NoConn
       /\ peer' = "none"
       /\ "disconnected" \in emitted']_vars

\* disconnect() has just run on a host whose stream had been acquired: the
\* stream is stopped and every field is back to its initial value
C16_Witness ==
  /\ emitted = {"disconnected"}
  /\ streamCount = 1
  /\ pendingAcq = {}
  /\ liveStreams = {}
  /\ participantCount = 0
  /\ mediaState = DefaultMediaState
  /\ peer = "none"

\* C17: once a stream has been acquired, a getLocalStream() call returns it
\* and acquires nothing, and the stream the manager holds stays that one until
\* disconnect().
C17_GetLocalStreamIdempotent ==
  [][localStream # NoStream =>
       /\ getLocalStream => /\ streamReturned' = localStream
                            /\ UNCHANGED <<pendingAcq, streamCount>>
       /\ disconnect \/ localStream' = localStream]_vars

\* C18: with a local stream present toggleAudio(x) sets audioEnabled to x and
\* leaves videoEnabled as it was, and toggleVideo(y) sets videoEnabled to y and
\* leaves audioEnabled as it was.
C18_TogglesAreIndependent ==
  [][localStream # NoStream =>
       \A x \in BOOLEAN :
         /\ toggleAudio(x) => /\ mediaState'.audioEnabled = x
                              /\ mediaState'.videoEnabled = mediaState.videoEnabled
         /\ toggleVideo(x) => /\ mediaState'.videoEnabled = x
                              /\ mediaState'.audioEnabled = mediaState.audioEnabled]_vars

\* toggleAudio(false) has just run on a stream whose video is on
C18_Witness ==
  /\ localStream # NoStream
  /\ emitted = {"audio-toggled"}
  /\ mediaState.audioEnabled = FALSE
  /\ mediaState.videoEnabled = TRUE

C20_StartLocalCaptionsIdempotent ==
  [][\A language \in Languages :
       (called' = "startLocalCaptions" /\ startLocalCaptions(language))
         => /\ adapterCall' = "start" => ~isMuted
            /\ engine # "idle" => (engine' = engine /\ ~raised')]_vars

\* recognition was started and has not ended: start was requested of the
\* engine, or the engine is recognising
RecognitionStarted == engine \in {"starting", "running"}

\* C21: whenever recognition was started and has not ended, right after the
\* start request included, stopLocalCaptions() issues a stop to the engine, so
\* that recognition does not keep running.
C21_StopLocalCaptionsStopsEngine ==
  [][(called' = "stopLocalCaptions" /\ stopLocalCaptions /\ RecognitionStarted)
       => engine' = "stopping"]_vars

\* destroy() has run: it is the only operation that clears the handlers
Destroyed == ~captionHandlers

\* C22: after destroy() the caption log is empty and stays empty and no
\* caption event is emitted, also when a translation response lands afterwards.
C22_DestroyedStaysEmpty ==
  [][Destroyed' => /\ captionQueue' = <<>>
                   /\ Destroyed => captionEvents' = captionEvents]_vars

\* C23: setTargetLanguage(L) changes the target language and leaves the log
\* and the emitted captions as they are; a caption whose processing starts
\* while the target is L is translated with target L and carries language L,
\* whatever is set afterwards.
C23_TargetLanguageAffectsLaterCaptions ==
  [][/\ \A language \in Languages :
          setTargetLanguage(language)
            => /\ targetLanguage' = language
               /\ UNCHANGED <<captionQueue, captionEvents, pendingTr, isMuted>>
     /\ \A q \in pendingTr' \ pendingTr : q.target = targetLanguage
     /\ \A q \in pendingTr, outcome \in Outcomes :
          TranslationSettles(q, outcome) => Newest.language = q.target]_vars

\* where a caption comes from, told by the text that was recognised: the
\* utterances of the local engine and the texts of the peer are disjoint
FromRecognition(c) == c.originalText \in {Utterance(n) : n \in 1..MaxInputs}
FromPeer(c) == c.originalText \in {p.originalText : p \in RemotePayloads}
SpeakerMatchesOrigin(c) ==
  /\ FromRecognition(c) => c.speaker = "local"
  /\ FromPeer(c) => c.speaker = "remote"

\* C24: every caption built from a local recognition result has speaker local
\* and every caption built by processRemoteCaption has speaker remote, in the
\* log and as emitted, whether the translation succeeded, failed or was
\* skipped and whatever speaker the payload carried.
C24_SpeakerFollowsOrigin ==
  /\ \A i \in 1..Len(captionQueue) : SpeakerMatchesOrigin(captionQueue[i])
  /\ \A i \in 1..Len(captionEvents) : SpeakerMatchesOrigin(captionEvents[i])

\* a payload that carried speaker local was processed without translation
\* after a local result whose translation had failed
C24_Witness ==
  /\ Len(captionEvents) = 2
  /\ captionEvents[1].originalText = Utterance(1)
  /\ captionEvents[1].speaker = "local"
  /\ ~captionEvents[1].isTranslated
  /\ captionEvents[1].language = "ES-mx"
  /\ captionEvents[2] = [text |-> "hey", originalText |-> "hey", speaker |-> "remote",
                         language |-> "en", isTranslated |-> FALSE]

(***************************************************************************)
(* The session orchestrator (SpecSession), continued.                      *)
(***************************************************************************)
\* C25: when the endpoint of createSession() opens, ParticipantCount becomes 1,
\* session-created is emitted with the identity of the endpoint and the call
\* returns that same identity; when the endpoint cannot open, the call fails
\* and ParticipantCount stays 0.
C25_CreateSessionOutcome ==
  [][/\ CreateOpen
          => /\ participantCount' = 1
             /\ "session-created" \in emitted'
             /\ created'.event = peerId
             /\ promise' = "resolved"
             /\ created'.result = created'.event
     /\ (PeerOpenFails /\ op = "create")
          => /\ promise' = "rejected"
             /\ participantCount' = 0
             /\ participantCount = 0]_vars

\* createSession() has just succeeded under the first generated identity
C25_Witness ==
  /\ op = "create"
  /\ peer = "open"
  /\ emitted = {"session-created"}
  /\ participantCount = 1
  /\ promise = "resolved"
  /\ created = [event |-> generateSecureSessionId(1), result |-> generateSecureSessionId(1)]

(***************************************************************************)
(* Continuous recognition (SpecSpeechLive).                                *)
(***************************************************************************)
\* C26: while local captions are wanted (started, not muted, not stopped), an
\* end event of the engine is followed by recognition becoming active again,
\* unless the captions are muted or stopped in the meantime; an end event that
\* follows an explicit stop leaves the engine idle.
C26_RecognitionResumesAfterEnd ==
  /\ (wanted /\ ~isMuted /\ engine = "idle")
       ~> (engine \in {"starting", "running"} \/ ~wanted \/ isMuted)
  /\ [][(SpeechEngineEnded /\ engine = "stopping") => engine' = "idle"]_vars

(***************************************************************************)
(* The result events of the speech service (SpecResults).                  *)
(***************************************************************************)
\* C27: the service emits one result event, with the text, the finality flag
\* and the confidence of the segment, for every segment the engine has
\* delivered, in the order delivered, whether an engine event carries one new
\* segment or several.
C27_OneResultPerSegment ==
  /\ Len(resultEvents) = Len(results)
  /\ \A i \in 1..Len(resultEvents) : resultEvents[i] = RecognitionResult(results[i])

(***************************************************************************)
(* The caption relay (SpecRelay).                                          *)
(***************************************************************************)
\* the data channel of the call is open: the connection the manager holds, the
\* one it opened as a joiner or the one it accepted as a host
ChannelOpen ==
  \/ connection.dir = "out" /\ outData = "open"
  \/ connection.dir = "in" /\ inData[connection.remote] = "open"

\* C28: in a paired call a caption message handed to sendData is sent on the
\* data channel, and a caption message of the peer that arrives on the channel
\* is passed to processRemoteCaption, on a host and on a joiner alike.
C28_CaptionsRelayedBothWays ==
  [][/\ \A data \in RelayPayloads :
          (ChannelOpen /\ sendData(data)) => sentData' = Append(sentData, data)
     /\ arrived' # arrived => received' = Append(received, arrived'[Len(arrived')])]_vars

\* C29: sendData(payload) sends the payload when the data channel exists and
\* is open and sends nothing otherwise; the fields of the orchestrator stay as
\* they are.
C29_SendDataBestEffort ==
  [][\A data \in RelayPayloads :
       sendData(data)
         => /\ ChannelOpen => sentData' = Append(sentData, data)
            /\ ~ChannelOpen => sentData' = sentData
            /\ UNCHANGED <<connection, participantCount, peer, outData, inData>>]_vars

\* a host has sent two messages on its open channel, and a message handed to
\* sendData after the remote closed the channel was dropped
C29_Witness ==
  /\ sentData = <<"c1", "c2">>
  /\ connection = InConn("r1")
  /\ inData["r1"] = "closed"
  /\ participantCount = 2

(***************************************************************************)
(* The call as the hook runs it (SpecCall).                                *)
(***************************************************************************)
\* C31: while a translate() call is awaited, the other handlers run and take
\* effect: the audio toggle of the hook (with the setMuted it makes), its video
\* toggle, a further recognition result, an inbound data connection and an
\* inbound media call.
C31_PendingTranslationBlocksNothing ==
  pendingTr # {} =>
    /\ ManagerExists =>
         /\ ENABLED (/\ hookToggleAudio
                     /\ audioEnabled' = ~audioEnabled
                     /\ isMuted' = audioEnabled
                     /\ localStream # NoStream => tracks'.audio = ~audioEnabled)
         /\ ENABLED (/\ hookToggleVideo
                     /\ videoEnabled' = ~videoEnabled
                     /\ localStream # NoStream => tracks'.video = ~videoEnabled)
    /\ (engine \in {"running", "stopping"} /\ resultCount + remoteCount < MaxInputs) =>
         ENABLED (CallCaptionEvent(OnSpeechResult) /\ resultCount' = resultCount + 1)
    /\ \A r \in MediaRemotes :
         /\ (peer = "open" /\ inData[r] = "none") =>
              ENABLED (CallSessionEvent(OnConnection(r)) /\ inData'[r] # "none")
         /\ (peer = "open" /\ inMedia[r] = "none" /\ streamCount < MaxStreams) =>
              ENABLED (CallSessionEvent(OnCall(r)) /\ inMedia'[r] # "none")

\* two translate() calls are awaited, the second for a result that arrived
\* while the first was awaited, and the microphone was switched off and a data
\* connection accepted since
C31_Witness ==
  /\ Cardinality(pendingTr) = 2
  /\ isMuted /\ ~audioEnabled /\ ~videoEnabled
  /\ inData["r1"] = "accepted"
  /\ captionEvents = <<>>

(***************************************************************************)
(* Concurrent connection attempts (SpecSession).                           *)
(***************************************************************************)
\* C32: in every interleaving of inbound calls, inbound data connections and
\* an outbound join, a second inbound call that arrives while the camera is
\* awaited for a first one included, the manager holds accepted connections
\* (data or media, inbound or outbound) with at most one remote peer.
C32_AtMostOneRemotePeer == Cardinality(AttachedRemotes) <= 1

\* the remotes other than r have made no attempt on this endpoint
OnlyPeer(r) == \A o \in Remotes \ {r} : inData[o] = "none" /\ inMedia[o] = "none"

\* C33: when a single remote peer joins a host, the host accepts that peer's
\* data connection and that peer's media call, whichever of the two arrives
\* first.
C33_HostAcceptsBothFromOnePeer ==
  [][\A r \in Remotes :
       (op = "create" /\ OnlyPeer(r))
         => /\ OnConnection(r) => inData'[r] = "accepted"
            /\ OnCall(r) => inMedia'[r] \in {"awaiting", "active"}]_vars

(***************************************************************************)
(* The microphone control of the hook (SpecCall).                          *)
(***************************************************************************)
\* C34: whenever the hook reports the microphone as off (audioEnabled is
\* false and the captions are muted), the audio track of the local stream, if
\* there is a stream, is disabled, also when the stream was acquired after the
\* microphone was switched off.
C34_MicrophoneOffDisablesTrack ==
  (~audioEnabled /\ isMuted /\ localStream # NoStream) => ~tracks.audio

(***************************************************************************)
(* Media acquisitions that overlap or outlive a disconnect (SpecMedia).    *)
(***************************************************************************)
\* C35: after disconnect() and until a session is created or joined again, a
\* getUserMedia request that was pending when disconnect() ran, awaited by
\* getLocalStream() or by the handler of an inbound call, settles without
\* setting localStream, mediaState.stream or participantCount and without
\* leaving a stream whose tracks run.
C35_DisconnectedStaysReset ==
  [][\A q \in pendingAcq :
       (q.stale /\ peer = "none" /\ GetUserMediaResolve(q))
         => /\ localStream' = NoStream
            /\ mediaState'.stream = NoStream
            /\ participantCount' = 0
            /\ liveStreams' = liveStreams]_vars

\* C39: between two disconnects a getUserMedia request is issued only when no
\* stream is held and no request issued since the last disconnect is pending,
\* however the getLocalStream() calls and the inbound-call handlers overlap,
\* and a caller whose request settles holds the stream every other caller got.
C39_AcquiredOncePerSession ==
  [][/\ streamCount' = streamCount + 1
          => /\ localStream = NoStream
             /\ \A p \in pendingAcq : p.stale
     /\ \A q \in pendingAcq :
          (~q.stale /\ GetUserMediaResolve(q) /\ localStream # NoStream)
            => localStream' = localStream]_vars

(***************************************************************************)
(* Translations in flight (SpecCaption).                                   *)
(***************************************************************************)
\* C36: a caption that is emitted with the text a translate() call returned
\* (isTranslated = TRUE) carries as its language the target language that call
\* was given, also when setTargetLanguage was called while the call was
\* awaited.
C36_LanguageIsTargetOfTranslation ==
  [][\A q \in pendingTr, outcome \in Outcomes \ {"rejected"} :
       (TranslationSettles(q, outcome) /\ captionEvents' # captionEvents)
         => LET emittedCaption == captionEvents'[Len(captionEvents')]
            IN emittedCaption.isTranslated => emittedCaption.language = q.target]_vars

\* the position in the engine's results of the result a local caption was
\* built from
ResultIndex(c) == CHOOSE n \in 1..MaxInputs : Utterance(n) = c.originalText
\* the captions of recognition results appear in a log in the order of the results
InResultOrder(log) ==
  \A i, j \in 1..Len(log) :
    (i < j /\ IsLocal(log[i]) /\ IsLocal(log[j])) => ResultIndex(log[i]) < ResultIndex(log[j])

\* C37: the captions of local recognition results are added to the log and
\* emitted in the order in which the recognition results were delivered,
\* however long each translate() call takes.
C37_LocalCaptionsInResultOrder ==
  /\ InResultOrder(captionQueue)
  /\ InResultOrder(captionEvents)

\* C38: when the translation service has tried both engines in vain and
\* returns the text it was given (the fallback result, which it returns
\* without throwing), the caption is emitted with its original text and
\* isTranslated = FALSE; isTranslated is TRUE only for a text an engine
\* produced.
C38_FallbackIsNotTranslated ==
  [][\A q \in pendingTr :
       TranslationSettles(q, "fallback")
         => /\ Newest.text = q.originalText
            /\ ~Newest.isTranslated]_vars

(***************************************************************************)
(* The caption relay of the call (SpecEcho).                               *)
(***************************************************************************)
\* C40: every message handed to the data channel carries a caption with
\* speaker local that was built from a recognition result of this side; a
\* caption that came from the peer through processRemoteCaption is never sent
\* back.
C40_OnlyLocalCaptionsRelayed ==
  \A i \in 1..Len(sentData) :
    /\ sentData[i].caption.speaker = "local"
    /\ FromRecognition(sentData[i].caption)
    /\ ~FromPeer(sentData[i].caption)

\* on an open channel the caption of a local result was relayed, and the
\* caption of the peer that was emitted after it was not
C40_Witness ==
  /\ inData["r1"] = "open"
  /\ Len(captionEvents) = 2
  /\ captionEvents[1].speaker = "local"
  /\ captionEvents[2].speaker = "remote"
  /\ captionEvents[2].originalText = "hey"
  /\ sentData = <<CaptionMessage(captionEvents[1])>>

====
